---- MODULE Spec2Model ----
(***************************************************************************)
(* The tool-calling chat loop of client.py (main), the tool bridge         *)
(* (get_openai_compatible_tools) and the reference tool server             *)
(* (mcpserver/my_server.py), as one sequential state machine.              *)
(*                                                                         *)
(* Text is modelled as a sequence of one-character strings wherever the    *)
(* code inspects or converts it (the input line, the JSON argument         *)
(* payload, str() of the tool's value); fixed diagnostics and replies are  *)
(* one-element sequences holding the whole text.                           *)
(***************************************************************************)
EXTENDS Integers, Sequences, FiniteSets, TLC

\* ------------------------------------------------------------------ bounds
\* Non-exit input lines accepted in one session.
MaxTurns == 2
\* Tool-call requests the model may emit in one session (over all batches).
MaxToolCalls == 2

\* ------------------------------------------------------------ text helpers
Digits == <<"0", "1", "2", "3", "4", "5", "6", "7", "8", "9">>

IsDigit(c) == \E d \in 1..10 : Digits[d] = c

DigitVal(c) == (CHOOSE d \in 1..10 : Digits[d] = c) - 1

\* str.lower() of one character, over the letters the input lines use.
LowerChar(c) ==
    CASE c = "E" -> "e"
      [] c = "X" -> "x"
      [] c = "I" -> "i"
      [] c = "T" -> "t"
      [] c = "H" -> "h"
      [] OTHER -> c

\* user_message.lower()
Lower(s) == [k \in 1..Len(s) |-> LowerChar(s[k])]

RECURSIVE NatStr(_)
NatStr(n) == IF n < 10 THEN <<Digits[n + 1]>>
             ELSE NatStr(n \div 10) \o <<Digits[(n % 10) + 1]>>

\* str(v) of a Python int: decimal digits, "-" in front of a negative.
Str(v) == IF v < 0 THEN <<"-">> \o NatStr(0 - v) ELSE NatStr(v)

\* list.pop() on a non-empty list: the list without its last entry.
Pop(h) == SubSeq(h, 1, Len(h) - 1)

\* -------------------------------------------------------------- json.loads
\* A recursive-descent reader of the JSON the payloads use: blanks, objects
\* with string keys, integers (no leading zero) and strings without escapes.
\* Each reader takes the text and a position and returns
\* [ok, pos, val]: whether a value was read, the position after it, the value.
\* Values are tagged: [t |-> "int", v |-> n], [t |-> "str", v |-> chars],
\* [t |-> "obj", v |-> <<key, value>> pairs in document order].
JFail == [ok |-> FALSE, pos |-> 0, val |-> [t |-> "none", v |-> <<>>]]

RECURSIVE SkipWs(_, _)
SkipWs(s, i) == IF i <= Len(s) /\ s[i] = " " THEN SkipWs(s, i + 1) ELSE i

RECURSIVE ReadDigits(_, _, _)
ReadDigits(s, i, acc) ==
    IF i <= Len(s) /\ IsDigit(s[i])
    THEN ReadDigits(s, i + 1, acc * 10 + DigitVal(s[i]))
    ELSE [pos |-> i, n |-> acc]

ParseInt(s, i) ==
    LET neg == i <= Len(s) /\ s[i] = "-"
        j == IF neg THEN i + 1 ELSE i
    IN  IF ~(j <= Len(s) /\ IsDigit(s[j])) THEN JFail
        ELSE IF s[j] = "0"
             THEN [ok |-> TRUE, pos |-> j + 1, val |-> [t |-> "int", v |-> 0]]
             ELSE LET r == ReadDigits(s, j, 0)
                  IN  [ok |-> TRUE, pos |-> r.pos,
                       val |-> [t |-> "int", v |-> IF neg THEN 0 - r.n ELSE r.n]]

RECURSIVE StringEnd(_, _)
StringEnd(s, i) == IF i > Len(s) THEN 0
                   ELSE IF s[i] = "\"" THEN i
                   ELSE StringEnd(s, i + 1)

ParseString(s, i) ==
    IF ~(i <= Len(s) /\ s[i] = "\"") THEN JFail
    ELSE LET e == StringEnd(s, i + 1)
         IN  IF e = 0 THEN JFail
             ELSE [ok |-> TRUE, pos |-> e + 1,
                   val |-> [t |-> "str", v |-> SubSeq(s, i + 1, e - 1)]]

RECURSIVE ParseValue(_, _)
RECURSIVE ParseMembers(_, _, _)

\* The members of an object from position i on, up to and including "}".
ParseMembers(s, i, acc) ==
    LET k == ParseString(s, SkipWs(s, i))
    IN  IF ~k.ok THEN JFail
        ELSE LET c == SkipWs(s, k.pos)
             IN  IF ~(c <= Len(s) /\ s[c] = ":") THEN JFail
                 ELSE LET v == ParseValue(s, SkipWs(s, c + 1))
                      IN  IF ~v.ok THEN JFail
                          ELSE LET d == SkipWs(s, v.pos)
                                   acc2 == Append(acc, <<k.val.v, v.val>>)
                               IN  IF d > Len(s) THEN JFail
                                   ELSE IF s[d] = "}"
                                        THEN [ok |-> TRUE, pos |-> d + 1,
                                              val |-> [t |-> "obj", v |-> acc2]]
                                   ELSE IF s[d] = ","
                                        THEN ParseMembers(s, d + 1, acc2)
                                   ELSE JFail

ParseObject(s, i) ==
    LET j == SkipWs(s, i + 1)
    IN  IF j <= Len(s) /\ s[j] = "}"
        THEN [ok |-> TRUE, pos |-> j + 1, val |-> [t |-> "obj", v |-> <<>>]]
        ELSE ParseMembers(s, j, <<>>)

ParseValue(s, i) ==
    IF i > Len(s) THEN JFail
    ELSE IF s[i] = "{" THEN ParseObject(s, i)
    ELSE IF s[i] = "\"" THEN ParseString(s, i)
    ELSE ParseInt(s, i)

\* json.loads(tool_args_str): ok = FALSE is json.JSONDecodeError.
json_loads(s) ==
    LET v == ParseValue(s, SkipWs(s, 1))
    IN  IF v.ok /\ SkipWs(s, v.pos) = Len(s) + 1
        THEN [ok |-> TRUE, val |-> v.val]
        ELSE [ok |-> FALSE, val |-> JFail.val]

\* ------------------------------------------------- the tool registry server
\* my_server.py: the one registered tool.
multiply(a, b) == a * b

\* What list_tools() returns for my_server.py: one ToolSpec.
ServerTools ==
    << [name |-> "multiply", description |-> "",
        inputSchema |-> [a |-> "integer", b |-> "integer"]] >>

\* ToolSpec lists a server may return from list_tools(): none, the one of
\* my_server.py, and two lists of two tools in either order.
EchoTool ==
    [name |-> "echo", description |-> "Echo the text back",
     inputSchema |-> [text |-> "string"]]
ToolLists ==
    {<<>>, ServerTools, ServerTools \o <<EchoTool>>, <<EchoTool>> \o ServerTools}

\* dict lookup in a parsed object: the last pair with the key wins.
HasKey(obj, key) == \E k \in 1..Len(obj) : obj[k][1] = key

Lookup(obj, key) ==
    obj[CHOOSE k \in 1..Len(obj) :
            obj[k][1] = key /\ \A m \in (k + 1)..Len(obj) : obj[m][1] # key][2]

\* The arguments fit multiply's signature (a: int, b: int).
ArgsFit(args) ==
    /\ args.t = "obj"
    /\ HasKey(args.v, <<"a">>) /\ Lookup(args.v, <<"a">>).t = "int"
    /\ HasKey(args.v, <<"b">>) /\ Lookup(args.v, <<"b">>).t = "int"

\* The server's answer to call_tool(tool_name, tool_args) when the request
\* reaches it: the tool's return value or an error.
ServerCall(tool_name, args) ==
    IF tool_name = "multiply" /\ ArgsFit(args)
    THEN [ok |-> TRUE,
          value |-> multiply(Lookup(args.v, <<"a">>).v, Lookup(args.v, <<"b">>).v)]
    ELSE [ok |-> FALSE, value |-> 0]

\* ------------------------------------------------------------- tool bridge
\* A bridge that lists the descriptors last to first.
OpenAITools_Reversed(fastmcp_tools) ==
    [k \in 1..Len(fastmcp_tools) |->
        [type |-> "function",
         function |->
            [name |-> fastmcp_tools[Len(fastmcp_tools) + 1 - k].name,
             description |-> fastmcp_tools[Len(fastmcp_tools) + 1 - k].description,
             parameters |-> fastmcp_tools[Len(fastmcp_tools) + 1 - k].inputSchema]]]

\* get_openai_compatible_tools: one descriptor per listed tool, in order.
OpenAITools(fastmcp_tools) ==
    [k \in 1..Len(fastmcp_tools) |->
        [type |-> "function",
         function |-> [name |-> fastmcp_tools[k].name,
                       description |-> fastmcp_tools[k].description,
                       parameters |-> fastmcp_tools[k].inputSchema]]]

\* ------------------------------------------------------------------ inputs
\* Lines the user may type.
LineExit == <<"e", "x", "i", "t">>
LineEXIT == <<"E", "X", "I", "T">>
LineExitMixed == <<"E", "x", "i", "T">>
LineExitPadded == <<" ", "e", "x", "i", "t">>
LineHi == <<"H", "i">>

Lines == {LineExit, LineEXIT, LineExitMixed, LineExitPadded, LineHi}

\* Argument payloads the model may send with a tool call.
\* {"a": 6, "b": 7}
Args67 == <<"{", "\"", "a", "\"", ":", " ", "6", ",", " ",
            "\"", "b", "\"", ":", " ", "7", "}">>
\* {"a":-3,"b":14}
ArgsNeg == <<"{", "\"", "a", "\"", ":", "-", "3", ",",
             "\"", "b", "\"", ":", "1", "4", "}">>
\* {"a": 6, "b"      (cut short: not JSON)
ArgsCut == <<"{", "\"", "a", "\"", ":", " ", "6", ",", " ", "\"", "b", "\"">>
\* {"a": 6}          (JSON, but multiply's b is missing)
ArgsNoB == <<"{", "\"", "a", "\"", ":", " ", "6", "}">>

Payloads == {Args67, ArgsNeg, ArgsCut, ArgsNoB}

\* json.loads of each payload, computed once.
Parsed == [p \in Payloads |-> json_loads(p)]

\* Failure descriptions (str(e)) of a failed remote call.
ServerErrorText == "Error calling tool 'multiply'"
TransportErrorText == "Connection closed"
ModelErrorText == "Connection error."

\* --------------------------------------------------------------- messages
NoId == <<>>

UserMessage(line) ==
    [role |-> "user", content |-> line, tool_calls |-> <<>>,
     tool_call_id |-> NoId, name |-> ""]

\* The model's plain-text reply (initial call) and its summary (follow-up).
ReplyMessage ==
    [role |-> "assistant", content |-> <<"Hello.">>, tool_calls |-> <<>>,
     tool_call_id |-> NoId, name |-> ""]

FinalMessage ==
    [role |-> "assistant", content |-> <<"The result is ready.">>,
     tool_calls |-> <<>>, tool_call_id |-> NoId, name |-> ""]

\* The id of the n-th tool-call request of the session.
CallId(n) == <<"call_">> \o NatStr(n)

\* The model's tool-call message for a batch of payloads, the session having
\* emitted `base` requests before.
ToolCallMessage(base, batch) ==
    [role |-> "assistant", content |-> <<>>,
     tool_calls |-> [k \in 1..Len(batch) |->
                        [id |-> CallId(base + k),
                         function |-> [name |-> "multiply",
                                       arguments |-> batch[k]]]],
     tool_call_id |-> NoId, name |-> ""]

\* What mcp_client.call_tool returns for a tool that returned `value`: the
\* fastmcp client's result object holding the value (a list of content blocks
\* or a CallToolResult, by library version), never the bare value.
ToolOutput(value) == [data |-> value]

\* str(tool_output): the repr of that object, the value's text inside it, as in
\* [TextContent(type='text', text='42', ...)] or CallToolResult(..., data=42, ...).
ResultReprOpen == "CallToolResult(data="
ResultReprClose == ")"
StrOutput(tool_output) ==
    <<ResultReprOpen>> \o Str(tool_output.data) \o <<ResultReprClose>>

ToolResultMessage(call, name, tool_output) ==
    [role |-> "tool", content |-> StrOutput(tool_output), tool_calls |-> <<>>,
     tool_call_id |-> call.id, name |-> name]

MalformedArgsText == "I encountered an error processing the tool arguments."
ToolErrorText == "I encountered an error while trying to use a tool: "

MalformedArgsMessage ==
    [role |-> "assistant", content |-> <<MalformedArgsText>>,
     tool_calls |-> <<>>, tool_call_id |-> NoId, name |-> ""]

ToolErrorMessage(e) ==
    [role |-> "assistant", content |-> <<ToolErrorText, e>>,
     tool_calls |-> <<>>, tool_call_id |-> NoId, name |-> ""]

NoMessage ==
    [role |-> "none", content |-> <<>>, tool_calls |-> <<>>,
     tool_call_id |-> NoId, name |-> ""]

\* ------------------------------------------------------------- diagnostics
\* What main() prints (the distinguishing part of each line).
PrConnected == "FastMCP Client connected: True"
PrStart == "--- Starting Chat Session ---"
PrApiError == "Error calling OpenAI API"
PrToolCalls == "LLM decided to call a tool"
PrCalling == "Calling FastMCP tool"
PrOutput == "Tool output"
PrMalformed == "Error: LLM provided malformed JSON arguments"
PrToolError == "Error executing tool"
PrReply == "Assistant: Hello."
PrFinal == "Assistant: The result is ready."
PrNoChoices == "An error occurred: list index out of range"
PrEndOfInput == "An error occurred: EOF when reading a line"
PrNoServer == "An error occurred: Client failed to connect"
PrNoTools == "An error occurred: list_tools failed"
PrEnded == "Chat session ended."

\* ------------------------------------------------------------------- state
VARIABLES
    pc,                      \* where main() is: "start", "discover", "input",
                             \* "model", "dispatch", "tool", "followup", "ended"
    chat_history,            \* the message list
    connected,               \* mcp_client.is_connected()
    opens,                   \* times the connection was opened
    available_openai_tools,  \* the descriptors fetched at startup
    user_message,            \* the last line input() returned
    assistant_message,       \* response.choices[0].message of this turn
    idx,                     \* position of tool_call in assistant_message.tool_calls
    tool_args,               \* json.loads(tool_args_str) of the current call
    printed,                 \* the lines printed since the last input line
    requests,                \* remote requests issued since the last input line
    turns,                   \* non-exit lines read so far
    emitted,                 \* tool-call requests the model has emitted so far
    lines_read,              \* input() calls that returned a line
    hist_at_input,           \* chat_history when the last input line was read
    server_tools,            \* the ToolSpecs the server lists (list_tools())
    ended_by                 \* why the session ended

vars == <<pc, chat_history, connected, opens, available_openai_tools,
          user_message, assistant_message, idx, tool_args, printed, requests,
          turns, emitted, lines_read, hist_at_input, server_tools, ended_by>>

NoArgs == JFail.val

\* The state of main() before line 62.
InitSession ==
    /\ pc = "start"
    /\ chat_history = <<>>
    /\ connected = FALSE
    /\ opens = 0
    /\ available_openai_tools = <<>>
    /\ user_message = <<>>
    /\ assistant_message = NoMessage
    /\ idx = 0
    /\ tool_args = NoArgs
    /\ printed = <<>>
    /\ requests = <<>>
    /\ turns = 0
    /\ emitted = 0
    /\ lines_read = 0
    /\ hist_at_input = <<>>
    /\ ended_by = ""

\* The session against my_server.py.
Init ==
    /\ server_tools = ServerTools
    /\ InitSession

\* The session against a server listing any of ToolLists.
BridgeInit ==
    /\ server_tools \in ToolLists
    /\ InitSession

\* ------------------------------------------------------ history operations
\* The exit test without .lower().
IsExit_CaseSensitive(line) == line = LineExit

\* line 71: the exit test.
IsExit(line) == Lower(line) = LineExit

\* line 74
AfterUserLine(h, line) == Append(h, UserMessage(line))

\* The handler of line 84 without its pop.
AfterModelError_NoPop(h) == h

\* The handler of line 84 reporting the error as the tool handlers do.
AfterModelError_Placeholder(h) == Append(Pop(h), ToolErrorMessage(ModelErrorText))

\* lines 84-87: the initial model call raised.
AfterModelError(h) == Pop(h)

\* The reply replacing the user's message instead of following it.
AfterReply_OverUser(h, message) == Append(Pop(h), message)

\* lines 139-140: a reply without tool calls.
AfterReply(h, message) == Append(h, message)

\* The handler of line 129 undoing the whole turn.
AfterMalformedArgs_RollbackTurn(h) == Append(hist_at_input, MalformedArgsMessage)

\* lines 129-132: json.loads raised JSONDecodeError.
AfterMalformedArgs(h) == Append(Pop(h), MalformedArgsMessage)

\* The handler of line 133 removing two entries.
AfterToolError_PopTwo(h, e) == Append(Pop(Pop(h)), ToolErrorMessage(e))

\* lines 133-136: call_tool or the follow-up model call raised.
AfterToolError(h, e) == Append(Pop(h), ToolErrorMessage(e))

\* Lines 111-119 without the tool-call message of line 111.
AfterToolOutput_NoCallMessage(h, message, call, name, tool_output) ==
    Append(h, ToolResultMessage(call, name, tool_output))

\* Lines 111-119 without the tool-result message.
AfterToolOutput_NoResult(h, message, call, name, tool_output) == Append(h, message)

\* lines 111-119: the tool returned.
AfterToolOutput(h, message, call, name, tool_output) ==
    Append(Append(h, message), ToolResultMessage(call, name, tool_output))

\* line 127: the follow-up model call returned.
AfterFinalResponse(h, message) == Append(h, message)

\* The request the for loop of line 94 is at.
tool_call == assistant_message.tool_calls[idx]
tool_name == tool_call.function.name
tool_args_str == tool_call.function.arguments

\* A handler that lets the error leave the loop.
NextPc_Raise == "ended"

\* A loop that stays at the request it has just handled.
NextIdx_Retry == idx

\* The end of one pass of the for loop: the next request, or back to input().
NextPc == IF idx < Len(assistant_message.tool_calls) THEN "dispatch" ELSE "input"
NextIdx == IF idx < Len(assistant_message.tool_calls) THEN idx + 1 ELSE idx

\* The tools argument of chat.completions.create: a descriptor list, or none
\* (tools=None of line 81, or the argument left out as at line 122).
NoToolCapability == [capability |-> FALSE, tools |-> <<>>]
ToolsArg(tools) ==
    IF tools # <<>> THEN [capability |-> TRUE, tools |-> tools]
    ELSE NoToolCapability

\* The follow-up call offering the tools again.
RequestTools_Always(kind) == ToolsArg(available_openai_tools)

\* What a request of each kind carries as tools: lines 78-83 for the initial
\* model call, lines 122-125 for the follow-up; call_tool has no such argument.
RequestTools(kind) ==
    IF kind = "model" THEN ToolsArg(available_openai_tools)
    ELSE NoToolCapability

Request(kind, id) == [kind |-> kind, id |-> id, tools |-> RequestTools(kind)]

\* Leaving the block without closing the connection.
ConnectionAfterExit_Leak == connected

\* is_connected() once control has left the async with block of line 62.
ConnectionAfterExit == FALSE

\* Leaving main(): the async with block is left (if it was entered), the
\* except clause of line 142 prints `diag` (if an error got there) and the
\* finally clause prints the last line.
Terminate(why, diag) ==
    /\ connected' = ConnectionAfterExit
    /\ printed' = printed \o diag \o <<PrEnded>>
    /\ ended_by' = why
    /\ pc' = "ended"

\* ----------------------------------------------------------------- actions
\* line 62: async with mcp_client, entered.
Connect ==
    /\ pc = "start"
    /\ connected' = TRUE
    /\ opens' = opens + 1
    /\ printed' = Append(printed, PrConnected)
    /\ pc' = "discover"
    /\ UNCHANGED <<server_tools, chat_history, available_openai_tools, user_message,
                   assistant_message, idx, tool_args, requests, turns, emitted,
                   lines_read, hist_at_input, ended_by>>

\* line 62 raising (the server cannot be started): lines 142-147.
ConnectFail ==
    /\ pc = "start"
    /\ Terminate("connect", <<PrNoServer>>)
    /\ UNCHANGED <<server_tools, chat_history, opens, available_openai_tools, user_message,
                   assistant_message, idx, tool_args, requests, turns, emitted,
                   lines_read, hist_at_input>>

\* line 66: tool discovery returned.
Discover ==
    /\ pc = "discover"
    /\ available_openai_tools' = OpenAITools(server_tools)
    /\ printed' = Append(printed, PrStart)
    /\ pc' = "input"
    /\ UNCHANGED <<server_tools, chat_history, connected, opens, user_message,
                   assistant_message, idx, tool_args, requests, turns, emitted,
                   lines_read, hist_at_input, ended_by>>

\* line 34 raising: the error leaves the async with block and reaches line 142.
DiscoverFail ==
    /\ pc = "discover"
    /\ Terminate("discovery", <<PrNoTools>>)
    /\ UNCHANGED <<server_tools, chat_history, opens, available_openai_tools, user_message,
                   assistant_message, idx, tool_args, requests, turns, emitted,
                   lines_read, hist_at_input>>

\* lines 70-74: a line is read; exit leaves the loop and the async with block,
\* any other line is appended and the model is called.
ReadLine ==
    /\ pc = "input"
    /\ \E line \in Lines :
         /\ user_message' = line
         /\ IF IsExit(line)
            THEN /\ connected' = ConnectionAfterExit
                 /\ printed' = <<PrEnded>>
                 /\ ended_by' = "exit"
                 /\ pc' = "ended"
                 /\ requests' = <<>>
                 /\ UNCHANGED <<chat_history, turns>>
            ELSE /\ turns < MaxTurns
                 /\ chat_history' = AfterUserLine(chat_history, line)
                 /\ printed' = <<>>
                 /\ requests' = <<Request("model", NoId)>>
                 /\ turns' = turns + 1
                 /\ pc' = "model"
                 /\ UNCHANGED <<connected, ended_by>>
    /\ hist_at_input' = chat_history
    /\ lines_read' = lines_read + 1
    /\ UNCHANGED <<server_tools, opens, available_openai_tools, assistant_message, idx,
                   tool_args, emitted>>

\* line 70 raising (end of input): lines 142-147.
InputFault ==
    /\ pc = "input"
    /\ Terminate("fault", <<PrEndOfInput>>)
    /\ UNCHANGED <<server_tools, chat_history, opens, available_openai_tools, user_message,
                   assistant_message, idx, tool_args, requests, turns, emitted,
                   lines_read, hist_at_input>>

\* lines 84-87: the initial model call raised.
ModelFail ==
    /\ pc = "model"
    /\ chat_history' = AfterModelError(chat_history)
    /\ printed' = Append(printed, PrApiError)
    /\ pc' = "input"
    /\ UNCHANGED <<server_tools, connected, opens, available_openai_tools, user_message,
                   assistant_message, idx, tool_args, requests, turns, emitted,
                   lines_read, hist_at_input, ended_by>>

\* line 89 raising (a response with no choices): outside the inner try, so
\* the error reaches line 142.
ModelNoChoices ==
    /\ pc = "model"
    /\ Terminate("fault", <<PrNoChoices>>)
    /\ UNCHANGED <<server_tools, chat_history, opens, available_openai_tools, user_message,
                   assistant_message, idx, tool_args, requests, turns, emitted,
                   lines_read, hist_at_input>>

\* lines 89-92, 137-140: a reply without tool calls.
ModelReply ==
    /\ pc = "model"
    /\ assistant_message' = ReplyMessage
    /\ chat_history' = AfterReply(chat_history, ReplyMessage)
    /\ printed' = Append(printed, PrReply)
    /\ pc' = "input"
    /\ UNCHANGED <<server_tools, connected, opens, available_openai_tools, user_message, idx,
                   tool_args, requests, turns, emitted, lines_read,
                   hist_at_input, ended_by>>

\* lines 89-94: a reply with tool calls; the for loop starts.
ModelToolCalls ==
    /\ pc = "model"
    /\ available_openai_tools # <<>>
    /\ \E n \in 1..(MaxToolCalls - emitted) :
         \E batch \in [1..n -> Payloads] :
            /\ assistant_message' = ToolCallMessage(emitted, batch)
            /\ emitted' = emitted + n
    /\ idx' = 1
    /\ printed' = Append(printed, PrToolCalls)
    /\ pc' = "dispatch"
    /\ UNCHANGED <<server_tools, chat_history, connected, opens, available_openai_tools,
                   user_message, tool_args, requests, turns, lines_read,
                   hist_at_input, ended_by>>

\* lines 95-102, 129-132: the payload is not JSON.
ParseFail ==
    /\ pc = "dispatch"
    /\ ~Parsed[tool_args_str].ok
    /\ chat_history' = AfterMalformedArgs(chat_history)
    /\ printed' = Append(printed, PrMalformed)
    /\ pc' = NextPc
    /\ idx' = NextIdx
    /\ UNCHANGED <<server_tools, connected, opens, available_openai_tools, user_message,
                   assistant_message, tool_args, requests, turns, emitted,
                   lines_read, hist_at_input, ended_by>>

\* lines 95-107: the payload parses and call_tool is issued.
ParseOk ==
    /\ pc = "dispatch"
    /\ Parsed[tool_args_str].ok
    /\ tool_args' = Parsed[tool_args_str].val
    /\ requests' = Append(requests, Request("tool", tool_call.id))
    /\ printed' = Append(printed, PrCalling)
    /\ pc' = "tool"
    /\ UNCHANGED <<server_tools, chat_history, connected, opens, available_openai_tools,
                   user_message, assistant_message, idx, turns, emitted,
                   lines_read, hist_at_input, ended_by>>

\* lines 107-122: call_tool returned; both messages are appended and the
\* follow-up model call is issued.
ToolReturn ==
    /\ pc = "tool"
    /\ ServerCall(tool_name, tool_args).ok
    /\ chat_history' = AfterToolOutput(chat_history, assistant_message, tool_call,
                                       tool_name,
                                       ToolOutput(ServerCall(tool_name, tool_args).value))
    /\ requests' = Append(requests, Request("followup", tool_call.id))
    /\ printed' = Append(printed, PrOutput)
    /\ pc' = "followup"
    /\ UNCHANGED <<server_tools, connected, opens, available_openai_tools, user_message,
                   assistant_message, idx, tool_args, turns, emitted, lines_read,
                   hist_at_input, ended_by>>

\* lines 107, 133-136: call_tool raised: the server refused the arguments, or
\* the request did not get through.
ToolFail ==
    /\ pc = "tool"
    /\ \E e \in {TransportErrorText} \cup
                (IF ServerCall(tool_name, tool_args).ok THEN {}
                 ELSE {ServerErrorText}) :
         chat_history' = AfterToolError(chat_history, e)
    /\ printed' = Append(printed, PrToolError)
    /\ pc' = NextPc
    /\ idx' = NextIdx
    /\ UNCHANGED <<server_tools, connected, opens, available_openai_tools, user_message,
                   assistant_message, tool_args, requests, turns, emitted,
                   lines_read, hist_at_input, ended_by>>

\* lines 122-127: the follow-up model call returned.
FollowupReply ==
    /\ pc = "followup"
    /\ chat_history' = AfterFinalResponse(chat_history, FinalMessage)
    /\ printed' = Append(printed, PrFinal)
    /\ pc' = NextPc
    /\ idx' = NextIdx
    /\ UNCHANGED <<server_tools, connected, opens, available_openai_tools, user_message,
                   assistant_message, tool_args, requests, turns, emitted,
                   lines_read, hist_at_input, ended_by>>

\* lines 122, 133-136: the follow-up model call raised inside the try.
FollowupFail ==
    /\ pc = "followup"
    /\ chat_history' = AfterToolError(chat_history, ModelErrorText)
    /\ printed' = Append(printed, PrToolError)
    /\ pc' = NextPc
    /\ idx' = NextIdx
    /\ UNCHANGED <<server_tools, connected, opens, available_openai_tools, user_message,
                   assistant_message, tool_args, requests, turns, emitted,
                   lines_read, hist_at_input, ended_by>>

\* The steps that need no user: a remote call returning or failing, and the
\* local steps of the for loop.
Respond ==
    \/ ModelFail \/ ModelNoChoices \/ ModelReply \/ ModelToolCalls
    \/ ParseFail \/ ParseOk \/ ToolReturn \/ ToolFail
    \/ FollowupReply \/ FollowupFail

Next ==
    \/ Connect \/ ConnectFail \/ Discover \/ DiscoverFail
    \/ ReadLine \/ InputFault
    \/ Respond

Spec == Init /\ [][Next]_vars

\* Every remote call eventually returns or fails.
FairSpec == Spec /\ WF_vars(Respond)

\* The session against any listed server, with a model that answers in plain
\* text: what the bridge returns and what the model call is given.
BridgeNext ==
    \/ Connect \/ ConnectFail \/ Discover \/ DiscoverFail
    \/ ReadLine \/ InputFault
    \/ ModelFail \/ ModelNoChoices \/ ModelReply

BridgeSpec == BridgeInit /\ [][BridgeNext]_vars

\* ------------------------------------------------------------------ claims
IsToolCallMessage(m) == m.role = "assistant" /\ m.tool_calls # <<>>
IsToolResult(m) == m.role = "tool"
IsPlainAssistant(m) == m.role = "assistant" /\ m.tool_calls = <<>>

\* What the current turn left in the history after the user's message.
TurnPart == SubSeq(chat_history, Len(hist_at_input) + 2, Len(chat_history))

HandledErrors == {PrApiError, PrMalformed, PrToolError}
LastPrinted == IF printed = <<>> THEN "" ELSE printed[Len(printed)]
ModelRequest == Request("model", NoId)

\* The turn is over, the model asked for tools and nothing failed.
CleanToolTurn ==
    /\ pc = "input"
    /\ printed # <<>>
    /\ printed[1] = PrToolCalls
    /\ \A k \in DOMAIN printed : printed[k] \notin HandledErrors

\* C1: a batch of N tool calls processed without any failure leaves, after the
\* user's message, exactly N tool-result messages, in the order of the
\* requests, and at least one follow-up assistant message; the tools are
\* invoked in request order.
C1_BatchAppendsResultsInOrder ==
    CleanToolTurn =>
        LET calls == assistant_message.tool_calls
            results == SelectSeq(TurnPart, IsToolResult)
            finals == SelectSeq(TurnPart, IsPlainAssistant)
            invoked == SelectSeq(requests, LAMBDA r : r.kind = "tool")
        IN  /\ SubSeq(chat_history, 1, Len(hist_at_input) + 1)
                 = Append(hist_at_input, UserMessage(user_message))
            /\ Len(results) = Len(calls)
            /\ \A k \in 1..Len(calls) : results[k].tool_call_id = calls[k].id
            /\ Len(finals) >= 1
            /\ Len(invoked) = Len(calls)
            /\ \A k \in 1..Len(calls) : invoked[k].id = calls[k].id

C1_Witness ==
    /\ CleanToolTurn
    /\ Len(assistant_message.tool_calls) = 2
    /\ hist_at_input # <<>>

\* C2: when a tool call's payload is not JSON (whatever its place in the
\* batch), handling it leaves no user message of the current turn in the
\* history, appends exactly one fixed-text assistant message, and issues no
\* call_tool.
C2_MalformedArgsDropUserMessage ==
    [][ (pc = "dispatch" /\ ~Parsed[tool_args_str].ok) =>
          /\ \A k \in (Len(hist_at_input) + 1)..Len(chat_history') :
                chat_history'[k].role # "user"
          /\ chat_history' # <<>>
          /\ chat_history'[Len(chat_history')] = MalformedArgsMessage
          /\ Len(chat_history') = Len(chat_history)
          /\ requests' = requests
          /\ pc' # "tool" ]_vars

\* C3: while the loop waits for input, every assistant tool-call message of
\* the history is directly followed by exactly one tool-result message per
\* call id, and occurs only once.
C3_HistoryAcceptedByModelAPI ==
    pc = "input" =>
        \A i \in DOMAIN chat_history :
            IsToolCallMessage(chat_history[i]) =>
                LET calls == chat_history[i].tool_calls
                    n == Len(calls)
                IN  /\ i + n <= Len(chat_history)
                    /\ \A k \in 1..n : IsToolResult(chat_history[i + k])
                    /\ \A c \in 1..n :
                          Cardinality({k \in 1..n :
                              chat_history[i + k].tool_call_id = calls[c].id}) = 1
                    /\ (i + n < Len(chat_history)
                          => ~IsToolResult(chat_history[i + n + 1]))
                    /\ \A j \in DOMAIN chat_history :
                          chat_history[j] = chat_history[i] => j = i

\* C4: when the initial model call raises, the history is again what it was
\* before the line was read (no user message, no assistant message), the one
\* model call is the only request of the turn, and the loop waits for input.
C4_ModelErrorRestoresHistory ==
    printed = <<PrApiError>> =>
        /\ pc = "input"
        /\ chat_history = hist_at_input
        /\ requests = <<ModelRequest>>

C4_Witness ==
    /\ printed = <<PrApiError>>
    /\ hist_at_input # <<>>
    /\ user_message = LineHi

\* C5: when the initial model call returns a reply without tool calls, the
\* history is the history the model was called with (the earlier history and
\* the user's message) plus that one assistant message; no tool is invoked.
C5_PlainReplyAppendsOneMessage ==
    printed = <<PrReply>> =>
        /\ pc = "input"
        /\ IsPlainAssistant(assistant_message)
        /\ chat_history = Append(Append(hist_at_input, UserMessage(user_message)),
                                 assistant_message)
        /\ requests = <<ModelRequest>>

C5_Witness ==
    /\ printed = <<PrReply>>
    /\ Len(hist_at_input) >= 2

\* C6: while the loop waits for input, every user message of the history has
\* a later assistant message, and the last entry is not a user message.
C6_NoOrphanedUserTurn ==
    pc = "input" =>
        /\ \A i \in DOMAIN chat_history :
              chat_history[i].role = "user" =>
                  \E j \in (i + 1)..Len(chat_history) :
                      chat_history[j].role = "assistant"
        /\ chat_history # <<>> => chat_history[Len(chat_history)].role # "user"

C6_Witness ==
    /\ pc = "input"
    /\ \E k \in DOMAIN printed : printed[k] \in HandledErrors
    /\ \E i \in DOMAIN chat_history : chat_history[i].role = "user"
    /\ turns = 2

\* "exit" in any letter case, stated letter by letter.
IsExitAnyCase(line) ==
    /\ Len(line) = 4
    /\ line[1] \in {"e", "E"}
    /\ line[2] \in {"x", "X"}
    /\ line[3] \in {"i", "I"}
    /\ line[4] \in {"t", "T"}

\* C7: a line that is "exit" in any letter case ends the loop with the history
\* unchanged and no request issued; any other line (a padded " exit" too) is
\* appended as a user message and the model is called.
C7_ExitAnyCaseEndsLoop ==
    lines_read > 0 =>
        IF IsExitAnyCase(user_message)
        THEN /\ pc = "ended"
             /\ ended_by = "exit"
             /\ chat_history = hist_at_input
             /\ requests = <<>>
        ELSE /\ ended_by # "exit"
             /\ requests # <<>>
             /\ requests[1] = ModelRequest
             /\ pc = "model" =>
                   /\ chat_history = Append(hist_at_input, UserMessage(user_message))
                   /\ requests = <<ModelRequest>>

C7_Witness ==
    /\ ended_by = "exit"
    /\ user_message = LineExitMixed
    /\ chat_history # <<>>

\* C8: the connection is opened at most once, and exactly once in a session
\* that gets to tool discovery; it is open during discovery and during every
\* tool invocation; it is closed whenever the session has ended; a session
\* ended by a discovery failure read no line and called no model.
C8_ConnectionScopedToSession ==
    /\ opens <= 1
    /\ pc \notin {"start", "ended"} => opens = 1 /\ connected
    /\ pc = "ended" /\ ended_by # "connect" => opens = 1
    /\ pc = "ended" => ~connected
    /\ ended_by = "discovery" =>
          lines_read = 0 /\ requests = <<>> /\ chat_history = <<>>

C8_Witness ==
    /\ pc = "ended"
    /\ ended_by = "exit"
    /\ ~connected
    /\ opens = 1
    /\ emitted > 0

InTurn == pc \in {"model", "dispatch", "tool", "followup"}

\* C9: a failure of the initial model call, of argument parsing, of a tool
\* invocation or of the follow-up model call leaves the session running (in
\* the loop, at the next request or at input()); a session that has ended
\* ended by exit, by a startup failure or by a fault of another kind; and, if
\* every remote call eventually returns or fails, a turn always gets back to
\* input() unless such a fault ends the session.
C9_HandledFailuresKeepSessionRunning ==
    /\ [](LastPrinted \in HandledErrors => pc \in {"input", "dispatch"})
    /\ [](pc = "ended" => /\ ended_by \in {"exit", "discovery", "connect", "fault"}
                          /\ \A k \in DOMAIN printed :
                                printed[k] \in HandledErrors =>
                                    k + 2 <= Len(printed) /\ ended_by = "fault")
    /\ (InTurn ~> (pc = "input" \/ ended_by = "fault"))

C9_Witness ==
    /\ pc = "input"
    /\ \E k \in DOMAIN printed : printed[k] = PrMalformed
    /\ \E k \in DOMAIN printed : printed[k] = PrToolError

\* C10: the message appended for a tool call that returned has role "tool",
\* the id and the tool name of its request, and the decimal text of the
\* product of the arguments as content ("42" for 6 and 7); when the follow-up
\* model call returns, its one assistant message directly follows it.
C10_ToolResultMessage ==
    /\ pc = "followup" =>
          LET m == chat_history[Len(chat_history)]
          IN  /\ m.role = "tool"
              /\ m.tool_call_id = tool_call.id
              /\ m.name = "multiply"
              /\ m.name = tool_name
              /\ tool_args_str \in {Args67, ArgsNeg}
              /\ tool_args_str = Args67 => m.content = <<"4", "2">>
              /\ tool_args_str = ArgsNeg => m.content = <<"-", "4", "2">>
    /\ LastPrinted = PrFinal =>
          LET n == Len(chat_history)
          IN  /\ n >= 2
              /\ chat_history[n] = FinalMessage
              /\ IsToolResult(chat_history[n - 1])
              /\ requests[Len(requests)]
                    = Request("followup", chat_history[n - 1].tool_call_id)

\* How many entries of h are m.
Occurrences(h, m) == Cardinality({i \in DOMAIN h : h[i] = m})

\* C11: when the model's response carries tool calls, its tool-call message
\* is in the history, directly after the user's message, before the first
\* call of the batch is parsed, and it is in the history exactly once while
\* the batch is processed, whether the calls succeed or fail.
C11_ToolCallMessageAppendedFirst ==
    /\ (pc = "dispatch" /\ idx = 1) =>
          chat_history = Append(Append(hist_at_input, UserMessage(user_message)),
                                assistant_message)
    /\ pc \in {"dispatch", "tool", "followup"} =>
          Occurrences(chat_history, assistant_message) = 1

\* The k-th printed line reports a failed tool call of this turn: malformed
\* arguments, or call_tool raising (the line follows "Calling FastMCP tool").
ToolCallFailedAt(k) ==
    \/ printed[k] = PrMalformed
    \/ printed[k] = PrToolError /\ k > 1 /\ printed[k - 1] = PrCalling

LoopOutput == {PrCalling, PrOutput, PrFinal, PrMalformed, PrToolError}

\* C12: once a tool call of a batch has failed (malformed arguments or the
\* invocation raising), the loop is back at input(): no later call of the
\* batch is parsed or invoked and no further model call is made in the turn.
C12_FailureAbortsBatch ==
    \A k \in DOMAIN printed :
        ToolCallFailedAt(k) =>
            /\ pc \in {"input", "ended"}
            /\ \A j \in (k + 1)..Len(printed) : printed[j] \notin LoopOutput

\* C13: a model call that raises, the initial one or a follow-up, leaves the
\* loop waiting for input with the turn's user message gone from the history
\* and no message appended (the history only shrinks).
C13_ModelFailureDiscardsTurn ==
    [][ (\/ pc = "model" /\ printed' = Append(printed, PrApiError)
         \/ pc = "followup" /\ printed' = Append(printed, PrToolError)) =>
          /\ pc' = "input"
          /\ Len(chat_history') < Len(chat_history)
          /\ chat_history' = SubSeq(chat_history, 1, Len(chat_history'))
          /\ \A k \in (Len(hist_at_input) + 1)..Len(chat_history') :
                chat_history'[k].role # "user" ]_vars

\* C14: when call_tool raises for a request, the turn's user message is no
\* longer in the history afterwards, the last entry is the one assistant
\* message ToolErrorText + description (one entry removed, one appended), and
\* neither the tool-call message nor a tool result of that request is added.
C14_ToolFailureReplacesUserMessage ==
    [][ (pc = "tool" /\ printed' = Append(printed, PrToolError)) =>
          /\ \A k \in (Len(hist_at_input) + 1)..Len(chat_history') :
                chat_history'[k].role # "user"
          /\ chat_history' # <<>>
          /\ chat_history'[Len(chat_history')]
                \in {ToolErrorMessage(TransportErrorText),
                     ToolErrorMessage(ServerErrorText)}
          /\ Len(chat_history') = Len(chat_history)
          /\ Occurrences(chat_history', assistant_message)
                <= Occurrences(chat_history, assistant_message)
          /\ \A k \in DOMAIN chat_history' :
                chat_history'[k].tool_call_id # tool_call.id ]_vars

\* C15: the initial model call of a turn is the turn's first request and
\* carries the discovered descriptor list; every follow-up model call comes
\* right after the tool invocation it summarises and carries no tool
\* capability; its response is appended as a plain assistant message and the
\* loop goes on with the same batch or back to input(), so a turn has at most
\* one batch of tool calls.
C15_ToolsOnlyOnInitialCall ==
    /\ \A k \in DOMAIN requests :
          /\ requests[k].kind = "model" <=> k = 1
          /\ requests[k].kind = "model" =>
                /\ requests[k].tools.tools = available_openai_tools
                /\ requests[k].tools.capability = (available_openai_tools # <<>>)
          /\ requests[k].kind = "followup" =>
                /\ ~requests[k].tools.capability
                /\ requests[k].tools.tools = <<>>
                /\ requests[k - 1] = [kind |-> "tool", id |-> requests[k].id,
                                      tools |-> NoToolCapability]
    /\ Cardinality({k \in DOMAIN printed : printed[k] = PrToolCalls}) <= 1
    /\ LastPrinted = PrFinal =>
          /\ chat_history[Len(chat_history)] = FinalMessage
          /\ IsPlainAssistant(FinalMessage)
          /\ pc \in {"dispatch", "input"}
          /\ pc = "dispatch" => idx > 1
          /\ Len(SelectSeq(requests, LAMBDA r : r.kind = "followup"))
                <= Len(assistant_message.tool_calls)

C15_Witness ==
    /\ pc = "input"
    /\ Len(SelectSeq(requests, LAMBDA r : r.kind = "followup")) = 2
    /\ LastPrinted = PrFinal
    /\ available_openai_tools # <<>>

\* The lines printed by pass j of the for loop when every earlier pass
\* succeeded (three lines per successful pass, after the announcement).
PassStart(j) == 3 * (j - 1) + 2
PassSucceeded(j) ==
    /\ PassStart(j) + 2 <= Len(printed)
    /\ SubSeq(printed, PassStart(j), PassStart(j) + 2)
          = <<PrCalling, PrOutput, PrFinal>>
PassFailed(k) ==
    /\ PassStart(k) <= Len(printed)
    /\ \/ printed[PassStart(k)] = PrMalformed
       \/ /\ PassStart(k) + 1 <= Len(printed)
          /\ printed[PassStart(k)] = PrCalling
          /\ printed[PassStart(k) + 1] = PrToolError

\* Calls 1..k-1 of the batch succeeded and call k (k > 1) failed.
FailedAfterSuccesses(k) ==
    /\ k > 1
    /\ printed # <<>>
    /\ printed[1] = PrToolCalls
    /\ \A j \in 1..(k - 1) : PassSucceeded(j)
    /\ PassFailed(k)

InFlight == pc \in {"model", "tool", "followup"}
Completions == {PrApiError, PrReply, PrToolCalls, PrNoChoices,
                PrOutput, PrToolError, PrFinal}
RequestsOf(kind, id) ==
    Cardinality({k \in DOMAIN requests :
                    requests[k].kind = kind /\ requests[k].id = id})

\* C17: every request of a turn but the one in flight has returned or failed
\* (so at most one is in flight); discovery is started once, by the one
\* connection, before any line is read, and the descriptors never change
\* afterwards; a turn has exactly one initial model call, at most one
\* invocation per requested tool call and at most one follow-up per
\* invocation, each for a call of the current batch.
C17_SequentialNoRetry ==
    /\ [](Len(requests)
            = Cardinality({k \in DOMAIN printed : printed[k] \in Completions})
              + (IF InFlight THEN 1 ELSE 0))
    /\ [](lines_read > 0 =>
            /\ pc \notin {"start", "discover"}
            /\ ended_by \notin {"connect", "discovery"}
            /\ available_openai_tools = OpenAITools(ServerTools))
    /\ [][ /\ pc' = "discover" =>
                pc = "start" /\ opens = 0 /\ opens' = 1 /\ lines_read = 0
           /\ pc' # "start"
           /\ available_openai_tools' # available_openai_tools =>
                pc = "discover" ]_vars
    /\ [](InTurn \/ (pc = "input" /\ lines_read > 0) =>
            /\ RequestsOf("model", NoId) = 1
            /\ \A k \in DOMAIN requests :
                  requests[k].kind \in {"tool", "followup"} =>
                      /\ RequestsOf(requests[k].kind, requests[k].id) = 1
                      /\ \E c \in DOMAIN assistant_message.tool_calls :
                            assistant_message.tool_calls[c].id = requests[k].id
                      /\ requests[k].kind = "followup" =>
                            RequestsOf("tool", requests[k].id) = 1)

C17_Witness ==
    /\ pc = "input"
    /\ turns = 2
    /\ \E k \in DOMAIN printed : printed[k] = PrToolError
    /\ Len(requests) >= 3

\* Discovery has returned.
Discovered ==
    /\ pc \notin {"start", "discover"}
    /\ ended_by \notin {"connect", "discovery"}

PopStep == \E e \in HandledErrors : printed' = Append(printed, e)

\* C19: the history that existed when the line was read stays the beginning
\* of the history, unchanged, during the turn and after it; every pop is made
\* on a non-empty history and removes an entry of the current turn; and what
\* the history held at one input line it still holds, in place, at the next.
C19_EarlierHistoryUntouched ==
    /\ [](lines_read > 0 =>
            /\ Len(chat_history) >= Len(hist_at_input)
            /\ SubSeq(chat_history, 1, Len(hist_at_input)) = hist_at_input)
    /\ [][ PopStep =>
            /\ chat_history # <<>>
            /\ Len(chat_history) > Len(hist_at_input)
            /\ SubSeq(chat_history', 1, Len(hist_at_input)) = hist_at_input ]_vars
    /\ [][ /\ Len(hist_at_input') >= Len(hist_at_input)
           /\ SubSeq(hist_at_input', 1, Len(hist_at_input)) = hist_at_input ]_vars

C19_Witness ==
    /\ pc = "input"
    /\ hist_at_input # <<>>
    /\ Len(chat_history) > Len(hist_at_input)
    /\ Len(SelectSeq(printed, LAMBDA x : x \in HandledErrors)) >= 2

\* C20: in every history the program can hold, a tool-result message is not
\* the first entry and the entry directly before it is an assistant tool-call
\* message one of whose tool_calls has the result's tool_call_id.
C20_ToolResultFollowsItsCall ==
    \A i \in DOMAIN chat_history :
        IsToolResult(chat_history[i]) =>
            /\ i > 1
            /\ IsToolCallMessage(chat_history[i - 1])
            /\ \E c \in DOMAIN chat_history[i - 1].tool_calls :
                  chat_history[i - 1].tool_calls[c].id
                      = chat_history[i].tool_call_id

\* A tool result of an earlier call still in place after a later rollback.
C20_Witness ==
    /\ pc = "input"
    /\ LastPrinted \in {PrMalformed, PrToolError}
    /\ \E i \in DOMAIN chat_history :
          /\ IsToolResult(chat_history[i])
          /\ chat_history[i].tool_call_id = assistant_message.tool_calls[1].id
    /\ Len(assistant_message.tool_calls) = 2

====
